---- MODULE Spec2Model ----
(***************************************************************************)
(* Model of the Zerodha -> 5paisa copy trader (src/copy_trader.py).        *)
(*                                                                         *)
(* The program is one synchronous loop (main): it loads the ledger file    *)
(* copy_map.json, logs in, builds the in-memory set `seen` from the        *)
(* ledger's keys and then polls kite.orders() for ever, handling the       *)
(* orders of each batch one after the other.  The model keeps the          *)
(* program's own variables (mapping, seen, orders, start_time), the two    *)
(* things that outlive the process (the ledger file and the brokers), and  *)
(* history variables that count the broker calls.                          *)
(*                                                                         *)
(* Granularity: one action per piece of the per-order handler that ends    *)
(* in a write to the ledger file or in a blocking call to a broker (the    *)
(* instrument lookup, the quote, the placement), so that a crash (Crash)   *)
(* can fall between any two of them and the source account can change      *)
(* while the handler waits.  A process killed inside a write of the        *)
(* ledger file (CrashInSave) leaves the file truncated.                    *)
(*                                                                         *)
(* Time: `now` is a logical clock that advances when a process starts;     *)
(* start_time is the instant of the start and keeps its microseconds       *)
(* (line 292).  An order's timestamp is a whole second (line 397): it is   *)
(* the clock value of the latest start when the second begins at or after  *)
(* that instant, and the value before it when the order is created in the  *)
(* second in which the process started, a second that began before the     *)
(* start instant.  So an order created before a run started has a          *)
(* timestamp strictly below that run's start_time, and an order created    *)
(* during the run has one too when it is created in the start second.  The *)
(* source broker's timestamps and the local clock agree, as line 396 of    *)
(* the code assumes.                                                       *)
(***************************************************************************)
EXTENDS Integers, Sequences, FiniteSets, TLC

\* Bounds of the model.
MaxOrders == 2      \* orders the source account ever holds
MaxRuns == 2        \* process starts (the first run and the restarts)

OrderIds == 1..MaxOrders

\* Python's None, and a present value, for an optional field.
None == <<>>
Some(x) == <<x>>

\* The decimal digits, and a natural number in decimal (Python's str and
\* f"{n}").
DigitChars == <<"0", "1", "2", "3", "4", "5", "6", "7", "8", "9">>

RECURSIVE ToDigits(_)
ToDigits(n) ==
    IF n < 10 THEN <<DigitChars[n + 1]>>
    ELSE ToDigits(n \div 10) \o <<DigitChars[(n % 10) + 1]>>

\* orderUniqueIdentifier of line 475: f"Z2F-{zid}".  An order_id n of the
\* model stands for the source broker's id with the decimal text of n.
client_order_id_fixed(z) == <<"Z", "2", "F", "-">>
client_order_id(z) == <<"Z", "2", "F", "-">> \o ToDigits(z)

\* order_timestamp of a source order: absent (None or ""), a string that
\* "%Y-%m-%d %H:%M:%S" does not parse, or a parseable time (str or datetime).
TsAbsent == [kind |-> "absent", t |-> 0]
TsBad == [kind |-> "bad", t |-> 0]
TsAt(t) == [kind |-> "time", t |-> t]

VARIABLES
    src,          \* the source broker's order list (kite.orders()), in creation order
    target,       \* the target broker's order book: the orders place_order has put there
    disk,         \* the ledger file copy_map.json
    now,          \* the logical clock
    pc,           \* where the process is: "down", "loop", "for", "snap", "resolved",
                  \* "quoted", "placed"
    start_time,   \* main's start_time
    mapping,      \* main's mapping: the in-memory ledger
    seen,         \* main's seen
    orders,       \* the batch the current poll fetched
    i,            \* position of the for loop in orders (1-based), 0 outside the loop
    presp,        \* the response of the place_order call in flight
    calls,        \* history: place_order calls per order_id in this run
    writes,       \* history: assignments to mapping["orders"][id] per order_id in this run
    lookups,      \* history: resolve_5p_instrument calls per order_id, over all runs
    failed,       \* history: order_ids whose handling has ended in a failure
    polls,        \* history: polls completed in this run (2 stands for two or more)
    firstBatch,   \* history: number of orders in the first batch ever fetched
    lastFetch,    \* history: how the latest kite.orders() of this run ended
    exit_code,    \* how the latest process start that did not reach the loop ended
    deferred,     \* history: order_ids passed over in this run, unseen and not COMPLETE,
                  \* with the watermark set, and not handled since
    input,        \* the argument of the pure function under check
    output        \* its result

vars == <<src, target, disk, now, pc, start_time, mapping, seen, orders, i, presp,
          calls, writes, lookups, failed, polls, firstBatch, lastFetch, exit_code,
          deferred, input, output>>

procVars == <<start_time, mapping, seen, orders, i, presp>>
envVars == <<src, now>>
\* The variables of the pure functions: the loop leaves them alone.
pureVars == <<input, output>>

----------------------------------------------------------------------------
\* The ledger.

\* {"orders": {}}: load_mapping's value for a missing file.
EmptyMapping == [started |-> None, orders |-> <<>>]

NoFile == [kind |-> "absent", data |-> EmptyMapping]

\* load_mapping(path)
load_mapping(d) == IF d.kind = "json" THEN d.data ELSE EmptyMapping

\* save_mapping(path, data): the file holds the full ledger.
save_mapping(m) == [kind |-> "json", data |-> m]

\* {"skipped": True, "reason": "opened before start"}
SkippedEntry == [skipped |-> TRUE, reason |-> "opened before start"]

\* {"fivep": fivep_id, ...}
MappedEntry(fivep_id) == [skipped |-> FALSE, fivep |-> fivep_id]

\* mapping["orders"][zid] = e
Record(m, zid, e) == [m EXCEPT !.orders = (zid :> e) @@ m.orders]

Keys(m) == DOMAIN m.orders

\* zid in seen
has_seen_never(zid) == FALSE
has_seen(zid) == zid \in seen

\* mapping.get("_started") is None
is_first_run(m) == m.started = None

\* order_dt < start_dt_local, for a timestamp that parsed
before_start(o) == o.order_timestamp.kind = "time" /\ o.order_timestamp.t < start_time

----------------------------------------------------------------------------
\* The state before any process has started, without the pure functions'
\* input and output.
LoopInit ==
    /\ src = <<>>
    /\ target = <<>>
    /\ disk = NoFile
    /\ now = 0
    /\ pc = "down"
    /\ start_time = 0
    /\ mapping = EmptyMapping
    /\ seen = {}
    /\ orders = <<>>
    /\ i = 0
    /\ presp = "none"
    /\ calls = [z \in OrderIds |-> 0]
    /\ writes = [z \in OrderIds |-> 0]
    /\ lookups = [z \in OrderIds |-> 0]
    /\ failed = {}
    /\ polls = 0
    /\ firstBatch = None
    /\ lastFetch = "none"
    /\ exit_code = "none"
    /\ deferred = {}

Init ==
    /\ LoopInit
    /\ input = <<>>
    /\ output = <<>>

----------------------------------------------------------------------------
\* The source account: orders appear and complete, whatever the copier does.

\* The timestamps an order created now can carry: none, an unparsable one,
\* the whole second of its creation.  In the second of the latest start that
\* second began before the start instant.
NewTimestamps ==
    {TsAbsent, TsBad, TsAt(now)} \cup (IF now >= 1 THEN {TsAt(now - 1)} ELSE {})

NewOrder ==
    /\ Len(src) < MaxOrders
    /\ \E st \in {"OPEN", "COMPLETE"}, ts \in NewTimestamps :
          src' = Append(src, [order_id |-> Len(src) + 1, status |-> st,
                              order_timestamp |-> ts])
    /\ UNCHANGED <<target, disk, now, pc, procVars, calls, writes, lookups, failed,
                   polls, firstBatch, deferred>>
    /\ UNCHANGED <<lastFetch, exit_code, pureVars>>

Complete ==
    /\ \E k \in 1..Len(src) :
          /\ src[k].status = "OPEN"
          /\ src' = [src EXCEPT ![k].status = "COMPLETE"]
    /\ UNCHANGED <<target, disk, now, pc, procVars, calls, writes, lookups, failed,
                   polls, firstBatch, deferred>>
    /\ UNCHANGED <<lastFetch, exit_code, pureVars>>

----------------------------------------------------------------------------
\* The process.

\* main up to the while loop: start_time, load_mapping, the logins, seen.
Start_no_rebuild ==
    /\ pc = "down"
    /\ now < MaxRuns
    /\ now' = now + 1
    /\ start_time' = now + 1
    /\ mapping' = load_mapping(disk)
    /\ seen' = {}
    /\ pc' = "loop"
    /\ UNCHANGED <<src, target, disk, orders, i, presp, calls, writes, lookups, failed,
                   polls, firstBatch, deferred>>
    /\ lastFetch' = "none"
    /\ exit_code' = "none"
    /\ UNCHANGED pureVars
Start ==
    /\ pc = "down"
    /\ now < MaxRuns
    /\ now' = now + 1
    /\ start_time' = now + 1
    /\ mapping' = load_mapping(disk)
    /\ seen' = Keys(load_mapping(disk))
    /\ pc' = "loop"
    /\ UNCHANGED <<src, target, disk, orders, i, presp, calls, writes, lookups, failed,
                   polls, firstBatch, deferred>>
    /\ lastFetch' = "none"
    /\ exit_code' = "none"
    /\ UNCHANGED pureVars

\* A login fails: z_login raises (the exception leaves main), or
\* interactive_login / marketdata_login answers no success (sys.exit(2),
\* sys.exit(3)).  The ledger was loaded, nothing was written, the loop is not
\* entered.
LoginFailed_goes_on ==
    /\ pc = "down"
    /\ now < MaxRuns
    /\ \E c \in {"raised", "2", "3"} : exit_code' = c
    /\ now' = now + 1
    /\ start_time' = now + 1
    /\ mapping' = load_mapping(disk)
    /\ seen' = Keys(load_mapping(disk))
    /\ pc' = "loop"
    /\ UNCHANGED <<src, target, disk, orders, i, presp, calls, writes, lookups, failed,
                   polls, firstBatch, deferred, lastFetch, pureVars>>
LoginFailed ==
    /\ pc = "down"
    /\ \E c \in {"raised", "2", "3"} : exit_code' = c
    /\ UNCHANGED <<src, target, disk, now, pc, start_time, mapping, seen, orders, i, presp,
                   calls, writes, lookups, failed, polls, firstBatch, deferred, lastFetch, pureVars>>

\* The process is killed, at any point; only the file and the brokers remain.
Crash ==
    /\ pc # "down"
    /\ pc' = "down"
    /\ start_time' = 0
    /\ mapping' = EmptyMapping
    /\ seen' = {}
    /\ orders' = <<>>
    /\ i' = 0
    /\ presp' = "none"
    /\ calls' = [z \in OrderIds |-> 0]
    /\ writes' = [z \in OrderIds |-> 0]
    /\ polls' = 0
    /\ UNCHANGED <<src, target, disk, now, lookups, failed, firstBatch>>
    /\ lastFetch' = "none"
    /\ deferred' = {}
    /\ UNCHANGED <<exit_code, pureVars>>

\* The process is killed inside save_mapping (Path.write_text has opened the
\* file for writing and has not written the data): the file is left empty,
\* and json.loads raises on it.
InSave ==
    \/ /\ pc = "for"
       /\ ~has_seen(orders[i].order_id) /\ orders[i].status = "COMPLETE"
       /\ is_first_run(mapping)
    \/ pc = "snap"
    \/ pc = "placed" /\ presp = "success"
CrashInSave ==
    /\ InSave
    /\ disk' = [kind |-> "corrupt", data |-> disk.data]
    /\ pc' = "down"
    /\ start_time' = 0
    /\ mapping' = EmptyMapping
    /\ seen' = {}
    /\ orders' = <<>>
    /\ i' = 0
    /\ presp' = "none"
    /\ calls' = [z \in OrderIds |-> 0]
    /\ writes' = [z \in OrderIds |-> 0]
    /\ polls' = 0
    /\ deferred' = {}
    /\ UNCHANGED <<src, target, now, lookups, failed, firstBatch>>
    /\ lastFetch' = "none"
    /\ UNCHANGED <<exit_code, pureVars>>

Bump(n) == IF n < 2 THEN n + 1 ELSE 2

\* orders = kite.orders() succeeded; an empty batch ends the poll at once.
Fetch ==
    /\ pc = "loop"
    /\ orders' = src
    /\ firstBatch' = IF firstBatch = None THEN Some(Len(src)) ELSE firstBatch
    /\ IF Len(src) = 0
          THEN pc' = "loop" /\ i' = 0 /\ polls' = Bump(polls)
          ELSE pc' = "for" /\ i' = 1 /\ polls' = polls
    /\ UNCHANGED <<src, target, disk, now, start_time, mapping, seen, presp,
                   calls, writes, lookups, failed>>
    /\ lastFetch' = "ok"
    /\ UNCHANGED <<exit_code, deferred, pureVars>>

\* kite.orders() raised: log, sleep, continue.
FetchFailed_unhandled ==
    /\ pc = "loop"
    /\ lastFetch' = "error"
    /\ pc' = "down"
    /\ start_time' = 0
    /\ mapping' = EmptyMapping
    /\ seen' = {}
    /\ orders' = <<>>
    /\ i' = 0
    /\ calls' = [z \in OrderIds |-> 0]
    /\ writes' = [z \in OrderIds |-> 0]
    /\ polls' = 0
    /\ deferred' = {}
    /\ UNCHANGED <<src, target, disk, now, presp, lookups, failed, firstBatch,
                   exit_code, pureVars>>
FetchFailed ==
    /\ pc = "loop"
    /\ lastFetch' = "error"
    /\ UNCHANGED <<src, target, disk, now, pc, start_time, mapping, seen, orders, i, presp,
                   calls, writes, lookups, failed, polls, firstBatch, deferred, exit_code, pureVars>>

\* The order the for loop is at.
o == orders[i]
zid == o.order_id

\* `continue`: the next order of the batch, or the end of the poll.
Continue ==
    IF i < Len(orders)
       THEN pc' = "for" /\ i' = i + 1 /\ polls' = polls
       ELSE pc' = "loop" /\ i' = 0 /\ polls' = Bump(polls)

\* if zid in seen: continue / if status != "COMPLETE": continue
SkipOrder ==
    /\ pc = "for"
    /\ has_seen(zid) \/ o.status # "COMPLETE"
    /\ Continue
    /\ deferred' = IF ~has_seen(zid) /\ ~is_first_run(mapping)
                    THEN deferred \cup {zid}
                    ELSE deferred
    /\ UNCHANGED <<src, target, disk, now, start_time, mapping, seen, orders, presp,
                   calls, writes, lookups, failed, firstBatch>>
    /\ UNCHANGED <<lastFetch, exit_code, pureVars>>

\* The order is one the handler goes on with.
Unseen == pc = "for" /\ ~has_seen(zid) /\ o.status = "COMPLETE"

\* First run: mapping["_started"] = now; save_mapping.
SnapshotBegin ==
    /\ Unseen
    /\ is_first_run(mapping)
    /\ mapping' = [mapping EXCEPT !.started = Some(now)]
    /\ disk' = save_mapping(mapping')
    /\ pc' = "snap"
    /\ UNCHANGED <<src, target, now, start_time, seen, orders, i, presp,
                   calls, writes, lookups, failed, polls, firstBatch, deferred>>
    /\ UNCHANGED <<lastFetch, exit_code, pureVars>>

\* The ids of the batch that the snapshot marks.
SnapIds == {orders[k].order_id : k \in 1..Len(orders)} \ seen

\* for ho in orders: mark as skipped; save_mapping; break.
SnapshotFinish ==
    /\ pc = "snap"
    /\ mapping' = [mapping EXCEPT !.orders =
                      [z \in SnapIds |-> SkippedEntry] @@ mapping.orders]
    /\ seen' = seen \cup SnapIds
    /\ writes' = [z \in OrderIds |-> IF z \in SnapIds THEN writes[z] + 1 ELSE writes[z]]
    /\ disk' = save_mapping(mapping')
    /\ pc' = "loop"
    /\ i' = 0
    /\ polls' = Bump(polls)
    /\ UNCHANGED <<src, target, now, start_time, orders, presp,
                   calls, lookups, failed, firstBatch, deferred>>
    /\ UNCHANGED <<lastFetch, exit_code, pureVars>>

\* The order has passed the first-run check.
Polling == Unseen /\ ~is_first_run(mapping)

\* The timestamp parsed and is before start_time: ledger entry, seen, continue.
\* The ledger is not saved here.
TsSkip ==
    /\ Polling
    /\ before_start(o)
    /\ mapping' = Record(mapping, zid, SkippedEntry)
    /\ writes' = [writes EXCEPT ![zid] = @ + 1]
    /\ seen' = seen \cup {zid}
    /\ Continue
    /\ UNCHANGED <<src, target, disk, now, start_time, orders, presp,
                   calls, lookups, failed, firstBatch>>
    /\ deferred' = deferred \ {zid}
    /\ UNCHANGED <<lastFetch, exit_code, pureVars>>

\* strptime raised: log, seen, continue.
TsError_forgets ==
    /\ Polling
    /\ o.order_timestamp.kind = "bad"
    /\ seen' = seen
    /\ failed' = failed \cup {zid}
    /\ Continue
    /\ UNCHANGED <<src, target, disk, now, start_time, mapping, orders, presp,
                   calls, writes, lookups, firstBatch>>
    /\ deferred' = deferred \ {zid}
    /\ UNCHANGED <<lastFetch, exit_code, pureVars>>
TsError ==
    /\ Polling
    /\ o.order_timestamp.kind = "bad"
    /\ seen' = seen \cup {zid}
    /\ failed' = failed \cup {zid}
    /\ Continue
    /\ UNCHANGED <<src, target, disk, now, start_time, mapping, orders, presp,
                   calls, writes, lookups, firstBatch>>
    /\ deferred' = deferred \ {zid}
    /\ UNCHANGED <<lastFetch, exit_code, pureVars>>

\* The order reaches resolve_5p_instrument.
Mirrorable == Polling /\ ~before_start(o) /\ o.order_timestamp.kind # "bad"

\* resolve_5p_instrument returned None: seen, continue.
ResolveFailed ==
    /\ Mirrorable
    /\ lookups' = [lookups EXCEPT ![zid] = @ + 1]
    /\ seen' = seen \cup {zid}
    /\ failed' = failed \cup {zid}
    /\ Continue
    /\ UNCHANGED <<src, target, disk, now, start_time, mapping, orders, presp,
                   calls, writes, firstBatch>>
    /\ deferred' = deferred \ {zid}
    /\ UNCHANGED <<lastFetch, exit_code, pureVars>>

\* resolve_5p_instrument returned the instrument (line 418).
Resolved ==
    /\ Mirrorable
    /\ lookups' = [lookups EXCEPT ![zid] = @ + 1]
    /\ pc' = "resolved"
    /\ UNCHANGED <<src, target, disk, now, start_time, mapping, seen, orders, i, presp,
                   calls, writes, failed, polls, firstBatch, deferred>>
    /\ UNCHANGED <<lastFetch, exit_code, pureVars>>

\* get_ask / get_bid returned None: seen, continue.
NoQuote ==
    /\ pc = "resolved"
    /\ seen' = seen \cup {zid}
    /\ failed' = failed \cup {zid}
    /\ Continue
    /\ UNCHANGED <<src, target, disk, now, start_time, mapping, orders, presp,
                   calls, writes, lookups, firstBatch>>
    /\ deferred' = deferred \ {zid}
    /\ UNCHANGED <<lastFetch, exit_code, pureVars>>

\* get_ask / get_bid returned a price (lines 431 and 437).
Quoted ==
    /\ pc = "resolved"
    /\ pc' = "quoted"
    /\ UNCHANGED <<src, target, disk, now, start_time, mapping, seen, orders, i, presp,
                   calls, writes, lookups, failed, polls, firstBatch, deferred>>
    /\ UNCHANGED <<lastFetch, exit_code, pureVars>>

\* xt_i.place_order(**params) has answered.  With a success answer the order is
\* in the target broker's book, tagged Z2F-<zid>; a success answer whose
\* "result" is None makes line 504 raise, which line 515 catches.
PlaceOrder ==
    /\ pc = "quoted"
    /\ calls' = [calls EXCEPT ![zid] = @ + 1]
    /\ \E r \in {"success", "success_no_result", "rejected", "raised"} :
          /\ presp' = r
          /\ target' = IF r \in {"success", "success_no_result"}
                          THEN Append(target, [orderUniqueIdentifier |-> client_order_id(zid)])
                          ELSE target
          /\ failed' = IF r = "success" THEN failed ELSE failed \cup {zid}
    /\ pc' = "placed"
    /\ UNCHANGED <<src, disk, now, start_time, mapping, seen, orders, i,
                   writes, lookups, polls, firstBatch, deferred>>
    /\ UNCHANGED <<lastFetch, exit_code, pureVars>>

\* presp is a success: ledger entry with the AppOrderID, save_mapping, seen.
RecordMapped ==
    /\ pc = "placed"
    /\ presp = "success"
    /\ mapping' = Record(mapping, zid, MappedEntry(Len(target)))
    /\ writes' = [writes EXCEPT ![zid] = @ + 1]
    /\ disk' = save_mapping(mapping')
    /\ seen' = seen \cup {zid}
    /\ presp' = "none"
    /\ Continue
    /\ UNCHANGED <<src, target, now, start_time, orders, calls, lookups, failed, firstBatch>>
    /\ deferred' = deferred \ {zid}
    /\ UNCHANGED <<lastFetch, exit_code, pureVars>>

\* presp is no success, line 504 raised, or place_order raised: seen only.
RecordNotPlaced ==
    /\ pc = "placed"
    /\ presp # "success"
    /\ seen' = seen \cup {zid}
    /\ presp' = "none"
    /\ Continue
    /\ UNCHANGED <<src, target, disk, now, start_time, mapping, orders,
                   calls, writes, lookups, failed, firstBatch>>
    /\ deferred' = deferred \ {zid}
    /\ UNCHANGED <<lastFetch, exit_code, pureVars>>

Next ==
    \/ NewOrder
    \/ Complete
    \/ Start
    \/ LoginFailed
    \/ Crash
    \/ CrashInSave
    \/ Fetch
    \/ FetchFailed
    \/ SkipOrder
    \/ SnapshotBegin
    \/ SnapshotFinish
    \/ TsSkip
    \/ TsError
    \/ ResolveFailed
    \/ Resolved
    \/ NoQuote
    \/ Quoted
    \/ PlaceOrder
    \/ RecordMapped
    \/ RecordNotPlaced

Spec == Init /\ [][Next]_vars

\* The ledger file is damaged while the process is down (a disk fault, an
\* edit): it exists and json.loads raises on it.
DamageFile ==
    /\ pc = "down"
    /\ disk.kind = "json"
    /\ disk' = [kind |-> "corrupt", data |-> disk.data]
    /\ UNCHANGED <<src, target, now, pc, start_time, mapping, seen, orders, i, presp,
                   calls, writes, lookups, failed, polls, firstBatch, deferred, lastFetch,
                   exit_code, pureVars>>

\* The program in an environment that can damage the ledger file.
SpecDamage == Init /\ [][Next \/ DamageFile]_vars

----------------------------------------------------------------------------
\* Definitions the properties share.

\* The mirrored orders the target broker holds for source order z.
Placed(z) ==
    Cardinality({k \in 1..Len(target) : target[k].orderUniqueIdentifier = client_order_id(z)})

\* A step of the handler on the order the for loop is at (not a crash, not a
\* step of the source account).
HandlerStep == pc = "for" /\ pc' # "down" /\ <<pc, i>>' # <<pc, i>>

----------------------------------------------------------------------------
\* C1: within one process run the handler issues at most one place_order call
\* for an order_id and assigns its ledger entry at most once, and the handling
\* of an order_id that is already in seen changes nothing (no ledger change, no
\* file write, no broker call).
C1_IdempotentInRun ==
    [][ /\ \A z \in OrderIds : calls'[z] <= 1 /\ writes'[z] <= 1
        /\ (HandlerStep /\ zid \in seen) =>
              UNCHANGED <<mapping, seen, disk, target, calls, writes, lookups, failed>>
      ]_vars

\* An order that was placed and recorded in this run is sighted again.
C1_Witness == pc = "for" /\ zid \in seen /\ calls[zid] = 1 /\ writes[zid] = 1

\* C2: over all runs, crashes and restarts, the target broker holds at most one
\* mirrored order per source order_id, whatever the order's timestamp holds.
C2_AtMostOneMirror == \A z \in OrderIds : Placed(z) <= 1

\* C3: once the handling of an order_id has ended in a failure, no instrument
\* lookup (and so no quote and no place_order, which only follow a lookup) is
\* issued for it again, in this run or after a restart.
C3_NeverRetried == [][ \A z \in failed : lookups'[z] = lookups[z] ]_vars

\* C4: every order whose handling ended in a failure has an entry
\* {skipped: true, reason} in the persisted ledger once it has been handled.
C4_FailureRecorded ==
    \A z \in failed :
        z \in seen => z \in Keys(load_mapping(disk)) /\ load_mapping(disk).orders[z].skipped

\* C5: write-once ledger.  No step of the running loop removes or replaces an
\* entry of the in-memory ledger, and no step at all removes or replaces an
\* entry of the ledger file.
C5_WriteOnce ==
    [][ /\ pc' # "down" =>
              \A z \in Keys(mapping) :
                  z \in Keys(mapping') /\ mapping'.orders[z] = mapping.orders[z]
        /\ \A z \in Keys(load_mapping(disk)) :
              /\ z \in Keys(load_mapping(disk'))
              /\ load_mapping(disk').orders[z] = load_mapping(disk).orders[z]
      ]_vars

\* C6: after the first successful poll of the first run, over a batch of one or
\* more orders in any mix of statuses, every order of the batch has the entry
\* "opened before start", the watermark is set and nothing has been placed.
C6_SnapshotAtFirstPoll ==
    (now = 1 /\ polls = 1 /\ pc = "loop" /\ Len(orders) >= 1) =>
        /\ mapping.started # None
        /\ \A k \in 1..Len(orders) :
              /\ orders[k].order_id \in Keys(mapping)
              /\ mapping.orders[orders[k].order_id] = SkippedEntry
        /\ target = <<>>

\* C7: in the first run only orders of the first fetched batch are recorded as
\* "opened before start".
C7_SnapshotFirstPollOnly ==
    now = 1 =>
        \A z \in Keys(mapping) :
            mapping.orders[z] = SkippedEntry => firstBatch # None /\ z <= firstBatch[1]

\* C8: with the watermark set, the handling of an order that is not in the
\* ledger and is COMPLETE issues the instrument lookup (it is taken through
\* mirroring), also when it completed while the process was down.  Stated for
\* the orders the run has not handled before (not in seen) and whose timestamp
\* is absent or well formed, the ones the claim's last clause is about.
C8_AllUnrecordedMirrored ==
    [][ (HandlerStep /\ mapping.started # None /\ zid \notin Keys(mapping)
           /\ zid \notin seen
           /\ o.status = "COMPLETE" /\ o.order_timestamp.kind # "bad")
        => lookups'[zid] = lookups[zid] + 1 ]_vars

\* C9: between two order handlings the ledger file equals the in-memory ledger.
C9_DiskEqualsMemory == pc \in {"loop", "for"} => load_mapping(disk) = mapping

\* C10: the watermark is written once.  Once set, the file's started value never
\* changes, the running loop never changes the in-memory one, and a process
\* start takes it from the file.
C10_WatermarkOnce ==
    [][ /\ load_mapping(disk).started # None =>
              load_mapping(disk').started = load_mapping(disk).started
        /\ (mapping.started # None /\ pc' # "down") => mapping'.started = mapping.started
        /\ (pc = "down" /\ pc' # "down") => mapping'.started = load_mapping(disk).started
      ]_vars

----------------------------------------------------------------------------
\* C11: a failed fetch of the source order list changes no state: ledger,
\* watermark, seen, the file, the target book and every call counter are as
\* before, and the loop is again about to fetch.
C11_FetchFailureNoChange ==
    [][ (pc = "loop" /\ lastFetch # "error" /\ lastFetch' = "error")
        => /\ UNCHANGED <<mapping, seen, disk, target, start_time, calls, writes,
                          lookups, failed>>
           /\ pc' = "loop"
      ]_vars

\* A fetch has failed in a run that holds a watermark and seen orders.
C11_Witness ==
    pc = "loop" /\ lastFetch = "error" /\ mapping.started # None /\ seen # {}

\* The handling of an order ends in a resolution, quote or placement failure.
FailureEnds ==
    \/ pc = "for" /\ pc' \notin {"down", "resolved"} /\ lookups' # lookups
    \/ pc = "resolved" /\ pc' \notin {"down", "resolved", "quoted"}
    \/ pc = "placed" /\ presp # "success" /\ pc' \notin {"down", "placed"}

\* C12: batch isolation.  A resolution, quote or placement failure leaves the
\* loop at the next order of the same batch (or at the end of the poll when it
\* was the last), and a later unseen COMPLETE order of the batch is taken
\* through the lookup, a successful placement putting its mirror in the target
\* book.  Stated for the orders whose timestamp is absent or well formed.
C12_BatchIsolation ==
    [][ /\ FailureEnds =>
              /\ orders' = orders
              /\ IF i < Len(orders) THEN pc' = "for" /\ i' = i + 1 ELSE pc' = "loop"
        /\ (HandlerStep /\ i > 1 /\ mapping.started # None /\ zid \notin seen
              /\ o.status = "COMPLETE" /\ o.order_timestamp.kind # "bad")
           => lookups'[zid] = lookups[zid] + 1
        /\ (pc = "quoted" /\ i > 1 /\ pc' = "placed" /\ presp' = "success")
           => target' = Append(target, [orderUniqueIdentifier |-> client_order_id(zid)])
      ]_vars

\* C13: a failed login ends the process before the first poll: the process is
\* down, no order list was fetched, nothing was placed or looked up and the
\* ledger file was not written.
C13_LoginFailureFatal ==
    [][ (exit_code' # exit_code /\ exit_code' # "none")
        => /\ pc' = "down"
           /\ UNCHANGED <<disk, target, orders, lastFetch, polls, firstBatch,
                          calls, lookups, writes>>
      ]_vars

\* The market-data login failed while a COMPLETE source order was waiting.
C13_Witness ==
    /\ exit_code = "3" /\ pc = "down"
    /\ \E k \in 1..Len(src) : src[k].status = "COMPLETE"
    /\ target = <<>>

\* C14: a process never runs on a ledger file that exists and cannot be
\* parsed: it exits instead of going on with an empty ledger.
C14_CorruptIsFatal == disk.kind = "corrupt" => pc = "down"

\* C15: at process start seen is exactly the key set of the ledger file, and
\* while the process runs every order_id with an entry in the in-memory ledger
\* or in the file is in seen.
C15_SeenCoversLedger ==
    [][ /\ (pc = "down" /\ pc' # "down") => seen' = Keys(load_mapping(disk))
        /\ pc' # "down" =>
              /\ Keys(mapping') \subseteq seen'
              /\ Keys(load_mapping(disk')) \subseteq seen'
      ]_vars

\* A restarted process has rebuilt seen from a ledger file that holds entries.
C15_Witness ==
    /\ now >= 2 /\ pc = "loop" /\ polls = 0 /\ lastFetch = "none"
    /\ Keys(load_mapping(disk)) # {}
    /\ seen = Keys(load_mapping(disk))

----------------------------------------------------------------------------
\* The quantity of the mirrored order (lines 361 and 427), as a function of
\* the source order's filled_quantity and quantity and of the multiplier.
\* A field is None when the order does not carry it.

MaxQty == 5         \* largest filled_quantity and quantity
MaxMult == 3        \* largest multiplier

\* The larger of two integers (Python's max).
Max(a, b) == IF a >= b THEN a ELSE b

\* Python's truth value of an optional integer: None and 0 are falsy.
Truthy(v) == v # None /\ v[1] # 0

\* a or b
PyOr(a, b) == IF Truthy(a) THEN a ELSE b

\* qty = int(o.get("filled_quantity") or o.get("quantity") or 0)
qty(ord) == PyOr(PyOr(ord.filled_quantity, ord.quantity), Some(0))[1]

\* target_qty = max(1, int(qty) * multiplier)
target_qty(q, multiplier) == Max(1, q * multiplier)

OptQty == {None} \cup {Some(n) : n \in 0..MaxQty}

QtyInputs == [filled_quantity : OptQty, quantity : OptQty, multiplier : 1..MaxMult]

\* The handler computes the quantity of the mirror of one order.
ScaleQty ==
    /\ output = None
    /\ output' = Some(target_qty(qty(input), input.multiplier))
    /\ UNCHANGED <<input, envVars, procVars, target, disk, pc, calls, writes,
                   lookups, failed, polls, firstBatch, deferred, lastFetch, exit_code>>

QtyInit == LoopInit /\ input \in QtyInputs /\ output = None

SpecQty == QtyInit /\ [][ScaleQty]_vars

\* C16: for a source order with filled quantity f >= 0, whatever its ordered
\* quantity, and a multiplier m >= 1, the mirrored quantity is max(1, f * m).
C16_QtyFromFilled ==
    (output # None /\ input.filled_quantity # None)
        => output[1] = Max(1, input.filled_quantity[1] * input.multiplier)

----------------------------------------------------------------------------
\* The limit price of the mirrored order (lines 444-458), as a function of
\* the order's side and of the quoted price (the best ask for BUY, the best
\* bid otherwise).  The quote is a whole number of paise (1/100 rupee); the
\* computation is carried out in points of 1/10000 rupee, in which one
\* percent of a quote is a whole number.

MaxPrice == 4000    \* largest quote, in paise

\* ticksize = 0.05, in points
ticksize == 500

\* the quote in points
Points(paise) == paise * 100

\* one_percent = price * 0.01
one_percent(price) == price \div 100

\* math.ceil(a / b) and math.floor(a / b) of positive a, b in exact arithmetic
math_ceil(a, b) == (a + b - 1) \div b
math_floor(a, b) == a \div b

\* The program computes in IEEE-754 doubles.  A quote that is no multiple
\* of 5.00 has an exact quotient adjusted_price / ticksize that is at least
\* 1/500 away from every integer, and the doubles give the exact ceiling
\* and floor.  At a multiple of 5.00 the exact quotient is an integer and
\* the doubles' quotient can fall just below it: math.ceil still gives the
\* exact value, math.floor gives one less.  FloatShort lists the bids up to
\* 300.00 (in paise) at which (price - price * 0.01) / 0.05 falls below the
\* exact integer, e.g. 35.0: 34.65 / 0.05 = 692.9999999999999.
FloatShort == {3500, 4500, 6500, 7000, 9000, 9500, 11500, 13000, 14000, 15500,
               16500, 18000, 19000, 20500, 23000, 25500, 26000, 28000, 28500}

\* math.floor(adjusted_price / ticksize) of line 458, for a bid in points
floor_ticks(price) ==
    IF price \div 100 \in FloatShort
    THEN math_floor(price - one_percent(price), ticksize) - 1
    ELSE math_floor(price - one_percent(price), ticksize)

\* adjusted_price of lines 445-458, in points
adjusted_price(side, price) ==
    IF side = "BUY"
    THEN math_ceil(price + one_percent(price), ticksize) * ticksize
    ELSE floor_ticks(price) * ticksize

PriceInputs == [side : {"BUY", "SELL"}, price : 1..MaxPrice]

\* The handler computes the limit price of the mirror of one order.
AdjustPrice ==
    /\ output = None
    /\ output' = Some(adjusted_price(input.side, Points(input.price)))
    /\ UNCHANGED <<input, envVars, procVars, target, disk, pc, calls, writes,
                   lookups, failed, polls, firstBatch, deferred, lastFetch, exit_code>>

PriceInit == LoopInit /\ input \in PriceInputs /\ output = None

SpecPrice == PriceInit /\ [][AdjustPrice]_vars

\* C17: the BUY limit is the smallest multiple of the tick that is at least
\* ask * 1.01 and the SELL limit the largest multiple of the tick that is at
\* most bid * 0.99; so the BUY limit is not below the ask and the SELL limit
\* not above the bid.
C17_TightestTick ==
    output # None =>
        LET price == Points(input.price)
            limit == output[1]
        IN  /\ limit % ticksize = 0
            /\ input.side = "BUY" =>
                  /\ limit * 100 >= price * 101
                  /\ (limit - ticksize) * 100 < price * 101
                  /\ limit >= price
            /\ input.side = "SELL" =>
                  /\ limit * 100 <= price * 99
                  /\ (limit + ticksize) * 100 > price * 99
                  /\ limit <= price

----------------------------------------------------------------------------
\* The symbol decoder parse_zerodha_option_symbol (src/copy_trader.py lines
\* 150-207) and its older copy in src/FivePaisa.py (lines 11-47), which knows
\* the weekly grammar only.  A text is a sequence of one-character strings.
\* The decoder raises on a ticker it cannot decode; a result is None for a
\* raised exception and Some(descriptor) for a returned dict.

UpperLetters == <<"A", "B", "C", "D", "E", "F", "G", "H", "I", "J", "K", "L", "M", "N", "O", "P", "Q", "R", "S", "T", "U", "V", "W", "X", "Y", "Z">>
LowerLetters == <<"a", "b", "c", "d", "e", "f", "g", "h", "i", "j", "k", "l", "m", "n", "o", "p", "q", "r", "s", "t", "u", "v", "w", "x", "y", "z">>

Chars(sq) == {sq[k] : k \in DOMAIN sq}

\* str.isalpha and str.isdigit of one ASCII character
isalpha(c) == c \in Chars(UpperLetters) \cup Chars(LowerLetters)
isdigit(c) == c \in Chars(DigitChars)

\* str.upper of an ASCII text
upper_char(c) ==
    IF c \in Chars(LowerLetters)
    THEN UpperLetters[CHOOSE k \in DOMAIN LowerLetters : LowerLetters[k] = c]
    ELSE c
upper(sq) == [k \in DOMAIN sq |-> upper_char(sq[k])]

Min(a, b) == IF a <= b THEN a ELSE b

\* Python's sq[a:b] and sq[a:] for 0 <= a <= b, and sq[:-2]
Slice(sq, a, b) == SubSeq(sq, Min(a, Len(sq)) + 1, Min(b, Len(sq)))
SliceFrom(sq, a) == Slice(sq, a, Len(sq))
DropLast2(sq) == Slice(sq, 0, Max(0, Len(sq) - 2))

\* str.endswith
endswith(sq, suffix) ==
    /\ Len(sq) >= Len(suffix)
    /\ SliceFrom(sq, Len(sq) - Len(suffix)) = suffix

\* int(text) of a text of ASCII letters, digits and signs: an optional sign
\* and one or more digits, anything else raises ValueError.
Unsigned(sq) == IF sq # <<>> /\ sq[1] \in {"-", "+"} THEN Tail(sq) ELSE sq
int_accepts(sq) == Unsigned(sq) # <<>> /\ \A k \in DOMAIN Unsigned(sq) : isdigit(Unsigned(sq)[k])

DigitValue(c) == (CHOOSE k \in DOMAIN DigitChars : DigitChars[k] = c) - 1

RECURSIVE DecimalValue(_)
DecimalValue(sq) ==
    IF sq = <<>> THEN 0
    ELSE DecimalValue(SubSeq(sq, 1, Len(sq) - 1)) * 10 + DigitValue(sq[Len(sq)])

int(sq) == IF sq # <<>> /\ sq[1] = "-" THEN 0 - DecimalValue(Unsigned(sq))
           ELSE DecimalValue(Unsigned(sq))

month_name_map ==
    (<<"J", "A", "N">> :> <<"J", "a", "n">>)
    @@ (<<"F", "E", "B">> :> <<"F", "e", "b">>)
    @@ (<<"M", "A", "R">> :> <<"M", "a", "r">>)
    @@ (<<"A", "P", "R">> :> <<"A", "p", "r">>)
    @@ (<<"M", "A", "Y">> :> <<"M", "a", "y">>)
    @@ (<<"J", "U", "N">> :> <<"J", "u", "n">>)
    @@ (<<"J", "U", "L">> :> <<"J", "u", "l">>)
    @@ (<<"A", "U", "G">> :> <<"A", "u", "g">>)
    @@ (<<"S", "E", "P">> :> <<"S", "e", "p">>)
    @@ (<<"O", "C", "T">> :> <<"O", "c", "t">>)
    @@ (<<"N", "O", "V">> :> <<"N", "o", "v">>)
    @@ (<<"D", "E", "C">> :> <<"D", "e", "c">>)

\* mon_map with an entry for the letter X
mon_map_with_X ==
    ("X" :> <<"X", "x", "x">>)
    @@ ("J" :> <<"J", "a", "n">>)
    @@ ("F" :> <<"F", "e", "b">>)
    @@ ("M" :> <<"M", "a", "r">>)
    @@ ("A" :> <<"A", "p", "r">>)
    @@ ("Y" :> <<"M", "a", "y">>)
    @@ ("H" :> <<"J", "u", "n">>)
    @@ ("G" :> <<"J", "u", "l">>)
    @@ ("U" :> <<"A", "u", "g">>)
    @@ ("S" :> <<"S", "e", "p">>)
    @@ ("O" :> <<"O", "c", "t">>)
    @@ ("N" :> <<"N", "o", "v">>)
    @@ ("D" :> <<"D", "e", "c">>)

mon_map ==
    ("J" :> <<"J", "a", "n">>)
    @@ ("F" :> <<"F", "e", "b">>)
    @@ ("M" :> <<"M", "a", "r">>)
    @@ ("A" :> <<"A", "p", "r">>)
    @@ ("Y" :> <<"M", "a", "y">>)
    @@ ("H" :> <<"J", "u", "n">>)
    @@ ("G" :> <<"J", "u", "l">>)
    @@ ("U" :> <<"A", "u", "g">>)
    @@ ("S" :> <<"S", "e", "p">>)
    @@ ("O" :> <<"O", "c", "t">>)
    @@ ("N" :> <<"N", "o", "v">>)
    @@ ("D" :> <<"D", "e", "c">>)

idx_symbols == {<<"N", "I", "F", "T", "Y">>, <<"B", "A", "N", "K", "N", "I", "F", "T", "Y">>, <<"F", "I", "N", "N", "I", "F", "T", "Y">>, <<"M", "I", "D", "C", "P", "N", "I", "F", "T", "Y">>}

CE == <<"C", "E">>
PE == <<"P", "E">>

\* i after the while loop of lines 151-153: the length of the leading run of
\* alphabetic characters
alpha_run(sym) ==
    CHOOSE n \in 0..Len(sym) :
        /\ \A k \in 1..n : isalpha(sym[k])
        /\ n = Len(sym) \/ ~isalpha(sym[n + 1])

\* is_monthly_expiry of lines 173-174
is_monthly_expiry_never(rest) == FALSE
is_monthly_expiry(rest) == upper(Slice(rest, 2, 5)) \in DOMAIN month_name_map

\* dd of the weekly grammar (line 189)
dd_weekly_shifted(rest) == Slice(rest, 2, 4)
dd_weekly(rest) == Slice(rest, 3, 5)

\* series of lines 197-198
series_all_index(underlying) == "OPTIDX"
series(underlying) == IF underlying \in idx_symbols THEN "OPTIDX" ELSE "OPTSTK"

\* opt_type of line 192
opt_type(tail) == IF endswith(tail, PE) THEN "PE" ELSE "CE"

\* parse_zerodha_option_symbol of src/copy_trader.py
parse_zerodha_option_symbol(sym) ==
    LET underlying == SubSeq(sym, 1, alpha_run(sym))
        rest == SliceFrom(sym, alpha_run(sym))
        yyyy == <<"2", "0">> \o Slice(rest, 0, 2)
        monthly == is_monthly_expiry(rest)
        mon == IF monthly THEN month_name_map[upper(Slice(rest, 2, 5))]
               ELSE mon_map[rest[3]]
        dd == IF monthly THEN <<"0", "1">> ELSE dd_weekly(rest)
        tail == SliceFrom(rest, 5)
        strike_str == DropLast2(tail)
    IN  IF ~monthly /\ Len(rest) < 3 THEN None                    \* IndexError, line 187
        ELSE IF ~monthly /\ rest[3] \notin DOMAIN mon_map THEN None   \* KeyError, line 188
        ELSE IF ~int_accepts(strike_str) THEN None                \* ValueError, line 194
        ELSE Some([symbol |-> underlying,
                   expiry_api_format |-> dd \o mon \o yyyy,
                   option_type |-> opt_type(tail),
                   strike |-> int(strike_str),
                   series |-> series(underlying),
                   is_monthly_expiry |-> monthly])

\* parse_zerodha_option_symbol of src/FivePaisa.py
FivePaisa_parse_zerodha_option_symbol(sym) ==
    LET underlying == SubSeq(sym, 1, alpha_run(sym))
        rest == SliceFrom(sym, alpha_run(sym))
        yyyy == <<"2", "0">> \o Slice(rest, 0, 2)
        tail == SliceFrom(rest, 5)
        strike_str == DropLast2(tail)
    IN  IF Len(rest) < 3 THEN None                                \* IndexError, line 21
        ELSE IF ~int_accepts(strike_str) THEN None                \* ValueError, line 27
        ELSE IF rest[3] \notin DOMAIN mon_map THEN None           \* ValueError, line 34
        ELSE Some([symbol |-> underlying,
                   expiry_api_format |-> Slice(rest, 3, 5) \o mon_map[rest[3]] \o yyyy,
                   option_type |-> opt_type(tail),
                   strike |-> int(strike_str),
                   series |-> series(underlying)])

\* The tickers the decoders are applied to, each given by its parts: the
\* underlying u, the year yy, the month m (one letter for a weekly ticker,
\* three for a monthly one), the day dd (empty for a monthly ticker), the
\* strike and the option type t.  The sets hold well-formed and malformed
\* parts.
Underlyings == {<<"N", "I", "F", "T", "Y">>, <<"B", "A", "N", "K", "N", "I", "F", "T", "Y">>, <<"S", "B", "I", "N">>}
Years == {<<"2", "5">>, <<"2", "X">>}
WeeklyMonths == {<<"N">>, <<"O">>, <<"Y">>, <<"X">>}
WeeklyDays == {<<"0", "4">>, <<"1", "1">>, <<"4", "A">>}
MonthlyMonths == {<<"N", "O", "V">>, <<"D", "E", "C">>, <<"N", "O", "X">>, <<"n", "o", "v">>}
Strikes == {<<"2", "5", "8", "0", "0">>, <<"5", "9", "5", "0", "0">>, <<"1", "0", "0">>, <<>>, <<"-", "1", "0", "0">>, <<"2", "A">>}
Types == {CE, PE, <<"X", "X">>}

TickerParts ==
    [u : Underlyings, yy : Years, m : WeeklyMonths, dd : WeeklyDays,
     strike : Strikes, t : Types]
    \cup [u : Underlyings, yy : Years, m : MonthlyMonths, dd : {<<>>},
          strike : Strikes, t : Types]

Ticker(parts) == parts.u \o parts.yy \o parts.m \o parts.dd \o parts.strike \o parts.t

NotDecoded == [ct |-> None, fp |-> None]

\* resolve_5p_instrument decodes the ticker of an order.
Decode ==
    /\ output.ct = None
    /\ output' = [output EXCEPT !.ct = Some(parse_zerodha_option_symbol(Ticker(input)))]
    /\ UNCHANGED <<input, envVars, procVars, target, disk, pc, calls, writes,
                   lookups, failed, polls, firstBatch, deferred, lastFetch, exit_code>>

\* The decoder of src/FivePaisa.py is applied to the same ticker.
DecodeFivePaisa ==
    /\ output.fp = None
    /\ output' = [output EXCEPT !.fp = Some(FivePaisa_parse_zerodha_option_symbol(Ticker(input)))]
    /\ UNCHANGED <<input, envVars, procVars, target, disk, pc, calls, writes,
                   lookups, failed, polls, firstBatch, deferred, lastFetch, exit_code>>

DecodeInit == LoopInit /\ input \in TickerParts /\ output = NotDecoded

DecodeNext == Decode \/ DecodeFivePaisa

SpecDecode == DecodeInit /\ [][DecodeNext]_vars

\* The two grammars, on the parts of a ticker.
AllAlpha(sq) == sq # <<>> /\ \A k \in DOMAIN sq : isalpha(sq[k])
AllDigits(sq) == sq # <<>> /\ \A k \in DOMAIN sq : isdigit(sq[k])

ValidCommon(parts) ==
    /\ AllAlpha(parts.u)
    /\ Len(parts.yy) = 2 /\ AllDigits(parts.yy)
    /\ AllDigits(parts.strike)
    /\ parts.t \in {CE, PE}

ValidWeekly(parts) ==
    /\ ValidCommon(parts)
    /\ Len(parts.m) = 1 /\ parts.m[1] \in DOMAIN mon_map
    /\ Len(parts.dd) = 2 /\ AllDigits(parts.dd)

ValidMonthly(parts) ==
    /\ ValidCommon(parts)
    /\ parts.m \in DOMAIN month_name_map
    /\ parts.dd = <<>>

\* The descriptor the parts of a valid ticker stand for.
Descriptor(parts, day, month, flag) ==
    [symbol |-> parts.u,
     expiry_api_format |-> day \o month \o <<"2", "0">> \o parts.yy,
     option_type |-> IF parts.t = PE THEN "PE" ELSE "CE",
     strike |-> DecimalValue(parts.strike),
     series |-> IF parts.u \in idx_symbols THEN "OPTIDX" ELSE "OPTSTK",
     is_monthly_expiry |-> flag]

WithoutFlag(d) == [f \in DOMAIN d \ {"is_monthly_expiry"} |-> d[f]]

\* NIFTY25N0425800PE and BANKNIFTY25NOV59500CE
WeeklyExample ==
    [u |-> <<"N", "I", "F", "T", "Y">>, yy |-> <<"2", "5">>, m |-> <<"N">>, dd |-> <<"0", "4">>, strike |-> <<"2", "5", "8", "0", "0">>, t |-> PE]
MonthlyExample ==
    [u |-> <<"B", "A", "N", "K", "N", "I", "F", "T", "Y">>, yy |-> <<"2", "5">>, m |-> <<"N", "O", "V">>, dd |-> <<>>, strike |-> <<"5", "9", "5", "0", "0">>, t |-> CE]

\* C18: a valid weekly ticker U+YY+M+DD+STRIKE+T decodes to underlying U,
\* expiry DD, month of M, 20YY, strike STRIKE and type T, not flagged as
\* monthly; NIFTY25N0425800PE decodes to NIFTY, 04Nov2025, 25800, PE, OPTIDX.
C18_WeeklyDecoded ==
    ValidWeekly(input) =>
        /\ output.ct # None =>
              output.ct[1] = Some(Descriptor(input, input.dd, mon_map[input.m[1]], FALSE))
        /\ output.fp # None =>
              output.fp[1] = Some(WithoutFlag(Descriptor(input, input.dd, mon_map[input.m[1]], FALSE)))
        /\ (input = WeeklyExample /\ output.ct # None) =>
              output.ct[1] = Some([symbol |-> <<"N", "I", "F", "T", "Y">>,
                                   expiry_api_format |-> <<"0", "4", "N", "o", "v", "2", "0", "2", "5">>,
                                   option_type |-> "PE",
                                   strike |-> 25800,
                                   series |-> "OPTIDX",
                                   is_monthly_expiry |-> FALSE])

\* Both decoders have decoded NIFTY25N0425800PE.
C18_Witness ==
    /\ input = WeeklyExample
    /\ output.ct # None /\ output.ct[1] # None
    /\ output.fp # None /\ output.fp[1] # None

\* C19: a valid monthly ticker U+YY+MON+STRIKE+T decodes to underlying U,
\* month MON, 20YY, strike STRIKE and type T and is flagged as monthly, and a
\* valid weekly ticker is decoded without the flag.
C19_MonthlyDecoded ==
    output.ct # None =>
        /\ ValidMonthly(input) =>
              output.ct[1] = Some(Descriptor(input, <<"0", "1">>, month_name_map[input.m], TRUE))
        /\ ValidWeekly(input) =>
              output.ct[1] # None /\ ~output.ct[1][1].is_monthly_expiry
        /\ input = MonthlyExample =>
              /\ output.ct[1][1].symbol = <<"B", "A", "N", "K", "N", "I", "F", "T", "Y">>
              /\ output.ct[1][1].expiry_api_format = <<"0", "1", "N", "o", "v", "2", "0", "2", "5">>
              /\ output.ct[1][1].strike = 59500
              /\ output.ct[1][1].option_type = "CE"
              /\ output.ct[1][1].is_monthly_expiry

\* BANKNIFTY25NOV59500CE has been decoded.
C19_Witness ==
    /\ input = MonthlyExample
    /\ output.ct # None /\ output.ct[1] # None
    /\ output.ct[1][1].is_monthly_expiry

\* The two grammars, on the text of a ticker: n is the length of U.
TextWeekly(sym) ==
    \E n \in 1..Len(sym) :
        /\ Len(sym) >= n + 8
        /\ AllAlpha(SubSeq(sym, 1, n))
        /\ AllDigits(SubSeq(sym, n + 1, n + 2))
        /\ sym[n + 3] \in DOMAIN mon_map
        /\ AllDigits(SubSeq(sym, n + 4, n + 5))
        /\ AllDigits(SubSeq(sym, n + 6, Len(sym) - 2))
        /\ SubSeq(sym, Len(sym) - 1, Len(sym)) \in {CE, PE}

TextMonthly(sym) ==
    \E n \in 1..Len(sym) :
        /\ Len(sym) >= n + 8
        /\ AllAlpha(SubSeq(sym, 1, n))
        /\ AllDigits(SubSeq(sym, n + 1, n + 2))
        /\ upper(SubSeq(sym, n + 3, n + 5)) \in DOMAIN month_name_map
        /\ AllDigits(SubSeq(sym, n + 6, Len(sym) - 2))
        /\ SubSeq(sym, Len(sym) - 1, Len(sym)) \in {CE, PE}

\* C20: the decoder returns no descriptor for a ticker that matches neither
\* the weekly nor the monthly grammar.
C20_MalformedRejected ==
    (output.ct # None /\ ~TextWeekly(Ticker(input)) /\ ~TextMonthly(Ticker(input)))
        => output.ct[1] = None

----------------------------------------------------------------------------
\* Properties of every descriptor the decoder returns.

\* The last two characters of a text.
Suffix2(sq) == SubSeq(sq, Max(1, Len(sq) - 1), Len(sq))

\* C22: a returned descriptor has strike > 0 and its option type is the
\* ticker's own two-letter suffix, CE or PE.
C22_DescriptorInvariant ==
    (output.ct # None /\ output.ct[1] # None) =>
        /\ output.ct[1][1].strike > 0
        /\ Suffix2(Ticker(input)) \in {CE, PE}
        /\ output.ct[1][1].option_type = "PE" <=> Suffix2(Ticker(input)) = PE
        /\ output.ct[1][1].option_type = "CE" <=> Suffix2(Ticker(input)) = CE

\* C23: the series of a returned descriptor is OPTIDX exactly when the
\* underlying is NIFTY, BANKNIFTY, FINNIFTY or MIDCPNIFTY, and OPTSTK
\* otherwise.
C23_SeriesByUnderlying ==
    (output.ct # None /\ output.ct[1] # None) =>
        /\ output.ct[1][1].symbol = input.u
        /\ output.ct[1][1].series \in {"OPTIDX", "OPTSTK"}
        /\ output.ct[1][1].series = "OPTIDX" <=>
              input.u \in {<<"N", "I", "F", "T", "Y">>,
                           <<"B", "A", "N", "K", "N", "I", "F", "T", "Y">>,
                           <<"F", "I", "N", "N", "I", "F", "T", "Y">>,
                           <<"M", "I", "D", "C", "P", "N", "I", "F", "T", "Y">>}

\* A stock option has been decoded.
C23_Witness ==
    /\ output.ct # None /\ output.ct[1] # None
    /\ input.u = <<"S", "B", "I", "N">>
    /\ output.ct[1][1].series = "OPTSTK"

----------------------------------------------------------------------------
\* read_multiplier (lines 60-69).  z_creds gives each of the three keys a
\* value or none.  A value is a text float() rejects, or a number; numbers
\* are counted in tenths, so that 25 stands for "2.5".

MaxConfigured == 4      \* largest configured multiplier (in absolute value)

\* the keys, in the order line 62 tries them
MultiplierKeys == <<"copytradeqtymultiplier", "copy_trade_qty_multiplier", "multiplier">>

KeyAbsent == [kind |-> "absent", tenths |-> 0]
NotNumeric == [kind |-> "text", tenths |-> 0]
Number(t) == [kind |-> "number", tenths |-> t]

ConfiguredValues ==
    {KeyAbsent, NotNumeric} \cup {Number(5 * k) : k \in (0 - 2 * MaxConfigured)..(2 * MaxConfigured)}

MultiplierInputs == [{MultiplierKeys[k] : k \in DOMAIN MultiplierKeys} -> ConfiguredValues]

\* int(float(v)): the integer part, rounded towards zero
int_float(t) == IF t >= 0 THEN t \div 10 ELSE 0 - ((0 - t) \div 10)

\* max(1, val) of line 66
at_least_one_not(val) == val
at_least_one(val) == Max(1, val)

\* the for loop of lines 62-68 from the k-th key on, and the return of line 69
RECURSIVE read_multiplier_from(_, _)
read_multiplier_from(z_creds, k) ==
    IF k > Len(MultiplierKeys) THEN 1
    ELSE IF z_creds[MultiplierKeys[k]].kind = "number"
         THEN at_least_one(int_float(z_creds[MultiplierKeys[k]].tenths))
         ELSE read_multiplier_from(z_creds, k + 1)     \* key absent, or float() raised

read_multiplier(z_creds) == read_multiplier_from(z_creds, 1)

MultiplierInit == LoopInit /\ input \in MultiplierInputs /\ output = None

\* multiplier = read_multiplier(z_creds), line 341
ReadMultiplier ==
    /\ output = None
    /\ output' = Some(read_multiplier(input))
    /\ UNCHANGED <<input, envVars, procVars, target, disk, pc, calls, writes,
                   lookups, failed, polls, firstBatch, deferred, lastFetch, exit_code>>

SpecMultiplier == MultiplierInit /\ [][ReadMultiplier]_vars

\* The keys that carry a number, and the first of them.
NumericKeys == {k \in DOMAIN MultiplierKeys : input[MultiplierKeys[k]].kind = "number"}
FirstNumeric == input[MultiplierKeys[CHOOSE k \in NumericKeys : \A j \in NumericKeys : k <= j]].tenths

\* C28: the multiplier is an integer >= 1: 1 when no key carries a number,
\* and otherwise max(1, v) for the configured number v (its integer part,
\* when v has a fraction).
C28_MultiplierAtLeastOne ==
    output # None =>
        /\ output[1] \in Nat /\ output[1] >= 1
        /\ NumericKeys = {} => output[1] = 1
        /\ NumericKeys # {} =>
              /\ output[1] * 10 <= Max(10, FirstNumeric)
              /\ Max(10, FirstNumeric) < output[1] * 10 + 10
              /\ FirstNumeric % 10 = 0 => output[1] = Max(1, FirstNumeric \div 10)

\* The first key carries -2, a later key carries 3: the multiplier is 1.
C28_Witness ==
    /\ output = Some(1)
    /\ input["copytradeqtymultiplier"] = Number(0 - 20)
    /\ input["multiplier"] = Number(30)

----------------------------------------------------------------------------
\* The two exchange segment functions (lines 210-234).  For one source order
\* the numeric code is computed from the decoded underlying (line 82) and the
\* symbolic code from the whole tradingsymbol (line 425).

\* sub in sq
Contains(sq, sub) ==
    \E k \in 0..(Len(sq) - Len(sub)) : SubSeq(sq, k + 1, k + Len(sub)) = sub

SENSEX == <<"S", "E", "N", "S", "E", "X">>

\* the names line 230 looks for
NiftyNames ==
    {<<"N", "I", "F", "T", "Y">>,
     <<"B", "A", "N", "K", "N", "I", "F", "T", "Y">>,
     <<"M", "I", "D", "C", "P", "N", "I", "F", "T", "Y">>,
     <<"F", "I", "N", "N", "I", "F", "T", "Y">>}

get_exchange_segment_numeric_for_marketdata(symbol) ==
    IF Contains(upper(symbol), SENSEX) THEN 12 ELSE 2

get_exchange_segment_string_for_order(symbol) ==
    IF \E x \in NiftyNames : Contains(upper(symbol), x) THEN "NSEFO"
    ELSE IF Contains(upper(symbol), SENSEX) THEN "BSEFO"
    ELSE "NSEFO"

SegmentUnderlyings ==
    {<<"N", "I", "F", "T", "Y">>,
     <<"B", "A", "N", "K", "N", "I", "F", "T", "Y">>,
     <<"S", "B", "I", "N">>,
     <<"S", "E", "N", "S", "E", "X">>,
     <<"s", "e", "n", "s", "e", "x">>,
     <<"B", "S", "E", "S", "E", "N", "S", "E", "X">>,
     <<"S", "E", "N", "S", "E", "X", "N", "I", "F", "T", "Y">>,
     <<"S", "E", "N", "S", "E">>}

SegmentInputs ==
    [u : SegmentUnderlyings, yy : {<<"2", "5">>}, m : {<<"N">>, <<"N", "O", "V">>},
     dd : {<<"0", "4">>}, strike : {<<"2", "5", "8", "0", "0">>, <<"1", "0", "0">>},
     t : {CE, PE}]

NoSegment == [numeric |-> None, string |-> None]

SegmentInit == LoopInit /\ input \in SegmentInputs /\ output = NoSegment

\* line 82, with parsed["symbol"] of line 154
SegmentNumeric ==
    /\ output.numeric = None
    /\ output' = [output EXCEPT !.numeric =
                     Some(get_exchange_segment_numeric_for_marketdata(
                              SubSeq(Ticker(input), 1, alpha_run(Ticker(input)))))]
    /\ UNCHANGED <<input, envVars, procVars, target, disk, pc, calls, writes,
                   lookups, failed, polls, firstBatch, deferred, lastFetch, exit_code>>

\* line 425
SegmentString ==
    /\ output.string = None
    /\ output' = [output EXCEPT !.string =
                     Some(get_exchange_segment_string_for_order(Ticker(input)))]
    /\ UNCHANGED <<input, envVars, procVars, target, disk, pc, calls, writes,
                   lookups, failed, polls, firstBatch, deferred, lastFetch, exit_code>>

SegmentNext == SegmentNumeric \/ SegmentString

SpecSegment == SegmentInit /\ [][SegmentNext]_vars

\* C24: a name that contains SENSEX (in any case) gets 12 and BSEFO, every
\* other name 2 and NSEFO, and the two codes of one order denote the same
\* exchange.
C24_SegmentsAgree ==
    LET sensex == Contains(upper(input.u), SENSEX)
    IN  /\ output.numeric # None => output.numeric[1] = IF sensex THEN 12 ELSE 2
        /\ output.string # None => output.string[1] = IF sensex THEN "BSEFO" ELSE "NSEFO"
        /\ (output.numeric # None /\ output.string # None) =>
               (output.numeric[1] = 12 <=> output.string[1] = "BSEFO")

----------------------------------------------------------------------------
\* resolve_5p_instrument (lines 72-147) and what main does with its result
\* (lines 417-442, 497).  The input is the order's tradingsymbol, the answer
\* the market-data broker gives to get_expiry_date and the answer it gives
\* to get_option_symbol.  The output holds the resolver's position, its
\* local variables and the trace of the broker calls made for the order.

MaxExpiries == 3        \* longest expiry list of the broker

\* A number in two digits at least (":02d").

Pad2(n) == IF n < 10 THEN <<"0">> \o ToDigits(n) ELSE ToDigits(n)

\* month_names of line 98
month_names ==
    <<(<<"J", "a", "n">>), (<<"F", "e", "b">>), (<<"M", "a", "r">>), (<<"A", "p", "r">>),
      (<<"M", "a", "y">>), (<<"J", "u", "n">>), (<<"J", "u", "l">>), (<<"A", "u", "g">>),
      (<<"S", "e", "p">>), (<<"O", "c", "t">>), (<<"N", "o", "v">>), (<<"D", "e", "c">>)>>

\* The expiry dates of the broker, and an entry that is no date.
Date(y, m, d) == [y |-> y, m |-> m, d |-> d]
NoDate == [y |-> 0, m |-> 0, d |-> 0]

\* The days of month m of year y (datetime's calendar).
days_in_month(y, m) ==
    IF m = 2
    THEN IF y % 4 = 0 /\ (y % 100 # 0 \/ y % 400 = 0) THEN 29 ELSE 28
    ELSE IF m \in {4, 6, 9, 11} THEN 30 ELSE 31

\* The broker's list can hold a day the calendar does not have (31 November).
ExpiryDates ==
    {Date(2025, 11, 6), Date(2025, 11, 25), Date(2025, 11, 31), Date(2026, 11, 24), NoDate}

\* The text the broker sends for a date: "2025-11-25T14:30:00"; "NA" for
\* the entry that is no date.  The letter between the date and the time can
\* come in lower case ("2025-11-06t14:30:00").
LowerCaseT == {Date(2025, 11, 6)}
TimeOfDay == <<"1", "4", ":", "3", "0", ":", "0", "0">>
IsoText(date) ==
    IF date = NoDate THEN <<"N", "A">>
    ELSE ToDigits(date.y) \o <<"-">> \o Pad2(date.m) \o <<"-">> \o Pad2(date.d)
         \o (IF date \in LowerCaseT THEN <<"t">> ELSE <<"T">>) \o TimeOfDay

\* datetime.strptime(text, "%Y-%m-%dT%H:%M:%S") for a text of fixed width
\* (the fields of the broker's texts are zero-padded): None when it raises.
\* strptime matches the letters of the format without regard to case.
strptime_iso(text) ==
    IF /\ Len(text) = 19
       /\ \A k \in {1, 2, 3, 4, 6, 7, 9, 10, 12, 13, 15, 16, 18, 19} : isdigit(text[k])
       /\ text[5] = "-" /\ text[8] = "-" /\ upper_char(text[11]) = "T"
       /\ text[14] = ":" /\ text[17] = ":"
       /\ DecimalValue(SubSeq(text, 1, 4)) >= 1
       /\ DecimalValue(SubSeq(text, 6, 7)) \in 1..12
       /\ DecimalValue(SubSeq(text, 9, 10)) \in
             1..days_in_month(DecimalValue(SubSeq(text, 1, 4)), DecimalValue(SubSeq(text, 6, 7)))
       /\ DecimalValue(SubSeq(text, 12, 13)) \in 0..23
       /\ DecimalValue(SubSeq(text, 15, 16)) \in 0..59
       /\ DecimalValue(SubSeq(text, 18, 19)) \in 0..59
    THEN Some(Date(DecimalValue(SubSeq(text, 1, 4)),
                   DecimalValue(SubSeq(text, 6, 7)),
                   DecimalValue(SubSeq(text, 9, 10))))
    ELSE None

\* datetime.strptime(text, "%d%b%Y") for an expiry_api_format of a monthly
\* descriptor ("01" + month name + "20" + yy): None when it raises.  The
\* month name is matched without regard to case.
is_month(text, k) == upper(month_names[k]) = upper(text)
strptime_dby(text) ==
    IF /\ Len(text) = 9
       /\ AllDigits(SubSeq(text, 1, 2))
       /\ \E k \in DOMAIN month_names : is_month(SubSeq(text, 3, 5), k)
       /\ AllDigits(SubSeq(text, 6, 9))
       /\ DecimalValue(SubSeq(text, 6, 9)) >= 1
       /\ DecimalValue(SubSeq(text, 1, 2)) \in
             1..days_in_month(DecimalValue(SubSeq(text, 6, 9)),
                              CHOOSE k \in DOMAIN month_names : is_month(SubSeq(text, 3, 5), k))
    THEN Some(Date(DecimalValue(SubSeq(text, 6, 9)),
                   CHOOSE k \in DOMAIN month_names : is_month(SubSeq(text, 3, 5), k),
                   DecimalValue(SubSeq(text, 1, 2))))
    ELSE None

\* The order of Python strings on texts of digits and of "-", ":", "T" and
\* "t": the code points, and a < b.
Ord(c) == IF isdigit(c) THEN 48 + DigitValue(c)
          ELSE IF c = "-" THEN 45 ELSE IF c = ":" THEN 58
          ELSE IF c = "t" THEN 116 ELSE 84

StrLess(a, b) ==
    \E k \in 1..(Min(Len(a), Len(b)) + 1) :
        /\ \A j \in 1..(k - 1) : a[j] = b[j]
        /\ \/ k = Len(a) + 1 /\ k <= Len(b)
           \/ k <= Len(a) /\ k <= Len(b) /\ Ord(a[k]) < Ord(b[k])

\* matching_dates of lines 105-113, as the set of its texts
matching_dates(expiry_dates, parsed_dt) ==
    {expiry_dates[k] : k \in {j \in DOMAIN expiry_dates :
        /\ strptime_iso(expiry_dates[j]) # None
        /\ strptime_iso(expiry_dates[j])[1].m = parsed_dt.m
        /\ strptime_iso(expiry_dates[j])[1].y = parsed_dt.y}}

\* sorted(matching_dates, reverse=True)[0] of lines 117-118
latest_expiry_first(matching) == CHOOSE x \in matching : \A y \in matching : ~StrLess(y, x)
latest_expiry(matching) == CHOOSE x \in matching : \A y \in matching : ~StrLess(x, y)

\* f"{dt.day:02d}{month_names[dt.month-1]}{dt.year}" of line 121
api_format(date) == Pad2(date.d) \o month_names[date.m] \o ToDigits(date.y)

\* The answers of get_expiry_date.
ExpiryRaised == [kind |-> "raised", dates |-> <<>>]
ExpiryNone == [kind |-> "none", dates |-> <<>>]
ExpiryError == [kind |-> "error", dates |-> <<>>]
ExpiryResult(dates) == [kind |-> "result", dates |-> dates]

ExpiryLists == UNION {[1..n -> ExpiryDates] : n \in 0..MaxExpiries}

ExpiryResponses ==
    {ExpiryRaised, ExpiryNone, ExpiryError} \cup {ExpiryResult(l) : l \in ExpiryLists}

\* expiry_date after lines 85-131, for a monthly descriptor
monthly_expiry_date(parsed, expiry_resp) ==
    LET expiry_dates == [k \in DOMAIN expiry_resp.dates |-> IsoText(expiry_resp.dates[k])]
        parsed_dt == strptime_dby(parsed.expiry_api_format)
    IN  IF expiry_resp.kind # "result" \/ expiry_resp.dates = <<>>
        THEN parsed.expiry_api_format              \* lines 125-131
        ELSE IF parsed_dt = None
        THEN parsed.expiry_api_format              \* strptime raised, line 129
        ELSE IF matching_dates(expiry_dates, parsed_dt[1]) = {}
        THEN parsed.expiry_api_format              \* line 124
        ELSE api_format(strptime_iso(
                 latest_expiry(matching_dates(expiry_dates, parsed_dt[1])))[1])

\* The answers of get_option_symbol.
Instrument == [ExchangeInstrumentID |-> 1]

LookupRaised == [kind |-> "raised", type |-> "", result |-> <<>>]
LookupNone == [kind |-> "none", type |-> "", result |-> <<>>]

LookupResponses ==
    {LookupRaised, LookupNone}
    \cup [kind : {"dict"}, type : {"success", "error"}, result : {<<>>, <<Instrument>>}]

\* lines 141-145: resp["result"][0], or None
lookup_result_any(resp) == IF resp.result # <<>> THEN Some(resp.result[1]) ELSE None
lookup_result(resp) ==
    IF resp.kind = "dict" /\ resp.type = "success" /\ resp.result # <<>>
    THEN Some(resp.result[1])
    ELSE None

\* The tickers that are resolved against every pair of answers.
WeeklyUnknownMonth ==
    [WeeklyExample EXCEPT !.m = <<"X">>]
MonthlyDecember ==
    [MonthlyExample EXCEPT !.m = <<"D", "E", "C">>]

ResolveTickers == {WeeklyExample, MonthlyExample, WeeklyUnknownMonth, MonthlyDecember}

ResolveInputs ==
    [parts : ResolveTickers, expiry : ExpiryResponses, lookup : LookupResponses]
    \cup [parts : TickerParts,
          expiry : {ExpiryResult(<<Date(2025, 11, 25)>>)},
          lookup : {[kind |-> "dict", type |-> "success", result |-> <<Instrument>>]}]

NotResolved ==
    [pc |-> "start", parsed |-> None, expiry_date |-> <<>>, inst |-> None, trace |-> <<>>]

ResolveInit == LoopInit /\ input \in ResolveInputs /\ output = NotResolved

\* The order_id of the source order whose ticker is resolved.
ResolveOrders == {z \in OrderIds : \A y \in OrderIds : z <= y}

ResolveFrame ==
    UNCHANGED <<input, envVars, start_time, mapping, orders, i, presp, target, disk, pc,
                calls, writes, lookups, failed, polls, firstBatch, deferred, lastFetch,
                exit_code>>
ResolveUnchanged == ResolveFrame /\ UNCHANGED seen

\* line 76: the ticker is parsed; an exception ends the resolver (line 145).
ResolveParse ==
    /\ output.pc = "start"
    /\ LET parsed == parse_zerodha_option_symbol(Ticker(input.parts))
       IN  output' =
             IF parsed = None
             THEN [output EXCEPT !.pc = "resolved"]
             ELSE [output EXCEPT
                     !.parsed = parsed,
                     !.expiry_date = parsed[1].expiry_api_format,
                     !.pc = IF parsed[1].is_monthly_expiry THEN "expiry" ELSE "lookup"]
    /\ ResolveUnchanged

\* lines 85-131: get_expiry_date for a monthly descriptor
ResolveExpiry ==
    /\ output.pc = "expiry"
    /\ output' = [output EXCEPT
          !.trace = Append(@, [fn |-> "get_expiry_date",
                               exchangeSegment |->
                                   get_exchange_segment_numeric_for_marketdata(output.parsed[1].symbol),
                               series |-> output.parsed[1].series,
                               symbol |-> output.parsed[1].symbol]),
          !.expiry_date = monthly_expiry_date(output.parsed[1], input.expiry),
          !.pc = "lookup"]
    /\ ResolveUnchanged

\* lines 133-147: get_option_symbol and the resolver's result
ResolveLookup ==
    /\ output.pc = "lookup"
    /\ output' = [output EXCEPT
          !.trace = Append(@, [fn |-> "get_option_symbol",
                               exchangeSegment |->
                                   get_exchange_segment_numeric_for_marketdata(output.parsed[1].symbol),
                               series |-> output.parsed[1].series,
                               symbol |-> output.parsed[1].symbol,
                               expiryDate |-> output.expiry_date,
                               optionType |-> output.parsed[1].option_type,
                               strikePrice |-> output.parsed[1].strike]),
          !.inst = lookup_result(input.lookup),
          !.pc = "resolved"]
    /\ ResolveUnchanged

\* lines 418-422: if not inst: seen.add(zid); continue
ResolveSkip ==
    /\ output.pc = "resolved"
    /\ output.inst = None
    /\ output' = [output EXCEPT !.pc = "skipped"]
    /\ seen' = seen \cup ResolveOrders
    /\ ResolveFrame

\* The next poll fetches the order again, lines 364-365: an order in seen is
\* passed by, any other is handled from the start.
ResolveAgain ==
    /\ output.pc = "skipped"
    /\ output' = [output EXCEPT
          !.pc = IF \A z \in ResolveOrders : has_seen(z) THEN "passed" ELSE "start"]
    /\ ResolveUnchanged

\* lines 429-442: the quote is asked for (and is taken to be there)
ResolveQuote ==
    /\ output.pc = "resolved"
    /\ output.inst # None
    /\ output' = [output EXCEPT
          !.trace = Append(@, [fn |-> "get_quote",
                               exchangeInstrumentID |-> output.inst[1].ExchangeInstrumentID]),
          !.pc = "quoted"]
    /\ ResolveUnchanged

\* line 497: place_order
ResolvePlace ==
    /\ output.pc = "quoted"
    /\ output' = [output EXCEPT
          !.trace = Append(@, [fn |-> "place_order",
                               exchangeInstrumentID |-> output.inst[1].ExchangeInstrumentID]),
          !.pc = "placed"]
    /\ ResolveUnchanged

ResolveNext ==
    \/ ResolveParse
    \/ ResolveExpiry
    \/ ResolveLookup
    \/ ResolveSkip
    \/ ResolveAgain
    \/ ResolveQuote
    \/ ResolvePlace

SpecResolve == ResolveInit /\ [][ResolveNext]_vars

\* The calls of one broker function in the trace.
Called(fn) == {k \in DOMAIN output.trace : output.trace[k].fn = fn}

\* The ticker has the weekly shape and its month code is none of the twelve
\* letters of the table.
UnknownMonthCode ==
    /\ Len(input.parts.m) = 1
    /\ input.parts.m[1] \notin {"J", "F", "M", "A", "Y", "H", "G", "U", "S", "O", "N", "D"}

\* C21: a weekly ticker with a month code outside the table is not decoded,
\* by either decoder, and for such an order the instrument lookup is not
\* called and no order is placed.
C21_UnknownMonthSkipped ==
    UnknownMonthCode =>
        /\ output.parsed = None
        /\ FivePaisa_parse_zerodha_option_symbol(Ticker(input.parts)) = None
        /\ output.pc \in {"start", "resolved", "skipped", "passed"}
        /\ output.pc \in {"skipped", "passed"} => ResolveOrders \subseteq seen
        /\ output.inst = None
        /\ Called("get_option_symbol") = {} /\ Called("place_order") = {}

\* NIFTY25X0425800PE has been skipped, although the broker would have
\* answered the lookup, and the next poll has passed the order by.
C21_Witness ==
    /\ input.parts = WeeklyUnknownMonth
    /\ input.lookup.type = "success" /\ input.lookup.result # <<>>
    /\ output.pc = "passed"
    /\ ResolveOrders \subseteq seen

\* The calendar dates of the broker's list in the month and year of the ticker.
MonthOfTicker == CHOOSE k \in DOMAIN month_names : upper(month_names[k]) = upper(input.parts.m)
YearOfTicker == 2000 + DecimalValue(input.parts.yy)
DatesOfMonth ==
    {d \in {input.expiry.dates[k] : k \in DOMAIN input.expiry.dates} :
        /\ d # NoDate /\ d.d <= days_in_month(d.y, d.m)
        /\ d.m = MonthOfTicker /\ d.y = YearOfTicker}

\* The order's ticker is a valid monthly one and the broker has answered
\* get_expiry_date with a list.
MonthlyWithList == ValidMonthly(input.parts) /\ input.expiry.kind = "result"

\* C25: when the broker's list has no date in the month and year of a monthly
\* descriptor, the instrument lookup is not called and no order is placed.
C25_NoSubstituteExpiry ==
    (MonthlyWithList /\ DatesOfMonth = {}) =>
        /\ Called("get_option_symbol") = {}
        /\ Called("place_order") = {}
        /\ output.pc \notin {"quoted", "placed"}

\* C26: for a monthly descriptor the expiry passed to the lookup is the
\* latest date of the list among those in the descriptor's month and year.
C26_LatestOfMonth ==
    (MonthlyWithList /\ DatesOfMonth # {}) =>
        \A k \in Called("get_option_symbol") :
            \E d \in DatesOfMonth :
                /\ \A e \in DatesOfMonth : e.d <= d.d
                /\ output.trace[k].expiryDate =
                       Pad2(d.d) \o month_names[d.m] \o ToDigits(d.y)

\* BANKNIFTY25NOV59500CE was looked up with 25Nov2025 from a list that holds
\* 25 Nov 2025 before 6 Nov 2025 and a date of November 2026.
C26_Witness ==
    /\ input.parts = MonthlyExample
    /\ input.expiry = ExpiryResult(<<Date(2025, 11, 25), Date(2026, 11, 24), Date(2025, 11, 6)>>)
    /\ Called("get_option_symbol") # {}
    /\ output.trace[2].expiryDate = <<"2", "5", "N", "o", "v", "2", "0", "2", "5">>

\* C27: the resolver yields an instrument only for a success response with a
\* non-empty result; otherwise it yields nothing, the order is skipped and
\* put in seen, and neither a quote nor place_order is called, in this poll or
\* a later one.
C27_ResolveOnlyOnSuccess ==
    output.pc \in {"resolved", "skipped", "passed", "quoted", "placed"} =>
        /\ output.inst # None =>
              /\ Called("get_option_symbol") # {}
              /\ input.lookup.kind = "dict" /\ input.lookup.type = "success"
              /\ input.lookup.result # <<>>
              /\ output.inst = Some(input.lookup.result[1])
        /\ output.inst = None =>
              /\ output.pc \in {"resolved", "skipped", "passed"}
              /\ output.pc \in {"skipped", "passed"} => ResolveOrders \subseteq seen
              /\ Called("get_quote") = {} /\ Called("place_order") = {}
              /\ Len(output.trace) <= 2
        /\ (Called("get_option_symbol") # {} /\ input.lookup.kind = "dict"
              /\ input.lookup.type = "success" /\ input.lookup.result # <<>>)
           => output.inst # None

\* An error response that carries a result has led to a skipped order, and
\* the next poll has passed the order by.
C27_Witness ==
    /\ input.lookup = [kind |-> "dict", type |-> "error", result |-> <<Instrument>>]
    /\ Called("get_option_symbol") # {}
    /\ output.pc = "passed"
    /\ ResolveOrders \subseteq seen

----------------------------------------------------------------------------
\* C29: every order placed on the target broker is tagged "Z2F-" followed by
\* the order_id of the source order it mirrors, in whatever run it is placed,
\* and two different order_ids give two different tags.
C29_ClientOrderId ==
    [][ /\ Len(target') > Len(target) =>
              /\ Len(target') = Len(target) + 1
              /\ target'[Len(target')].orderUniqueIdentifier
                     = <<"Z", "2", "F", "-">> \o ToDigits(zid)
              /\ zid = 1 => target'[Len(target')].orderUniqueIdentifier = <<"Z", "2", "F", "-", "1">>
        /\ \A k \in 1..Len(target) : target'[k] = target[k]
        /\ \A y, z \in OrderIds : client_order_id(y) = client_order_id(z) => y = z
      ]_vars

\* The mirrors of two source orders are in the target broker's book.
C29_Witness ==
    /\ Len(target) >= 2
    /\ target[1].orderUniqueIdentifier # target[2].orderUniqueIdentifier

----------------------------------------------------------------------------
\* C30: a crash during the snapshot pass leaves no ledger file in which the
\* watermark is set while an order of the poll that triggered the snapshot
\* has no skipped entry.
C30_SnapshotAtomic ==
    [][ (pc = "snap" /\ pc' = "down" /\ load_mapping(disk').started # None)
        => \A k \in 1..Len(orders) :
              /\ orders[k].order_id \in Keys(load_mapping(disk'))
              /\ load_mapping(disk').orders[orders[k].order_id] = SkippedEntry
      ]_vars

----------------------------------------------------------------------------
\* The placement of the mirror of one order (lines 361-362 and 427-518): the
\* handler of a COMPLETE, unseen order whose instrument has been resolved.
\* Its steps are the quote, the submission and the recording; output holds the
\* handler's position and what it has done so far.

\* The texts "BUY" and "SELL"; XTSConnect.TRANSACTION_TYPE_BUY and
\* XTSConnect.TRANSACTION_TYPE_SELL are these texts.
TRANSACTION_TYPE_BUY == <<"B", "U", "Y">>
TRANSACTION_TYPE_SELL == <<"S", "E", "L", "L">>

\* side = (o.get("transaction_type") or "").upper(); None and "" are both <<>>
side(ord) == upper(ord.transaction_type)

\* order_side_val of line 461
order_side_val(s) ==
    IF s = TRANSACTION_TYPE_BUY THEN TRANSACTION_TYPE_BUY ELSE TRANSACTION_TYPE_SELL

\* the quote the handler asks for (lines 431 and 437)
quote_fn(s) == IF s = TRANSACTION_TYPE_BUY THEN "get_ask" ELSE "get_bid"

\* adjusted_price of lines 445-458 for a side given as a text
limit_price(s, price) ==
    adjusted_price(IF s = TRANSACTION_TYPE_BUY THEN "BUY" ELSE "SELL", Points(price))

\* What place_order answers: a dictionary, None, or an exception.
PlaceRaised == [kind |-> "raised"]
PlaceNone == [kind |-> "none"]
PlaceDict(type, result) == [kind |-> "dict", type |-> type, result |-> result]
\* the "result" of an answer: None, or a dictionary with or without AppOrderID
PlaceResult(id) == Some([AppOrderID |-> id])
PlaceResponses ==
    {PlaceRaised, PlaceNone, PlaceDict("error", None),
     PlaceDict("success", PlaceResult(Some(501))), PlaceDict("success", PlaceResult(None)),
     PlaceDict("success", None)}

\* presp and presp.get("type") == "success"
is_success(resp) == resp.kind = "dict" /\ resp.type = "success"

\* The source orders: the side as sent, in either case, absent or empty, or
\* another word; the quantities; the multiplier; the book's best ask and bid
\* in paise (None: no quote); the answer of place_order.
SourceSides ==
    {<<>>, TRANSACTION_TYPE_BUY, TRANSACTION_TYPE_SELL,
     <<"b", "u", "y">>, <<"s", "e", "l", "l">>, <<"S", "H", "O", "R", "T">>}

PlaceInputs ==
    [order_id : OrderIds, transaction_type : SourceSides,
     filled_quantity : {None, Some(0), Some(2)}, quantity : {None, Some(3)},
     multiplier : {1, 2}, ask : {None, Some(1000)}, bid : {None, Some(3500)},
     presp : PlaceResponses]

NotPlaced ==
    [pc |-> "quote", price |-> None, params |-> None, presp |-> None,
     entry |-> None, seen |-> FALSE, trace |-> <<>>]

PlaceInit == LoopInit /\ input \in PlaceInputs /\ output = NotPlaced

PlaceUnchanged ==
    UNCHANGED <<input, envVars, procVars, target, disk, pc, calls, writes,
                lookups, failed, polls, firstBatch, deferred, lastFetch, exit_code>>

\* lines 429-442: the ask for BUY, the bid otherwise; without a price the
\* order is marked seen and left.
PlaceQuote ==
    /\ output.pc = "quote"
    /\ LET fn == quote_fn(side(input))
           price == IF fn = "get_ask" THEN input.ask ELSE input.bid
       IN  output' = [output EXCEPT
              !.trace = Append(@, [fn |-> fn]),
              !.price = price,
              !.seen = (price = None),
              !.pc = IF price = None THEN "done" ELSE "submit"]
    /\ PlaceUnchanged

\* lines 444-497: the parameters are built and place_order is called.
PlaceSubmit ==
    /\ output.pc = "submit"
    /\ LET params == [orderSide |-> order_side_val(side(input)),
                      orderQuantity |-> target_qty(qty(input), input.multiplier),
                      limitPrice |-> limit_price(side(input), output.price[1]),
                      orderUniqueIdentifier |-> client_order_id(input.order_id)]
       IN  output' = [output EXCEPT
              !.trace = Append(@, [fn |-> "place_order"]),
              !.params = Some(params),
              !.presp = Some(input.presp),
              !.pc = "record"]
    /\ PlaceUnchanged

\* presp.get("result", {}).get("AppOrderID") of line 504 raises: "result" is None
fivep_id_raises(resp) == is_success(resp) /\ resp.result = None

\* lines 503-508: a success answer is recorded in the ledger.
PlaceMapped ==
    /\ output.pc = "record"
    /\ is_success(output.presp[1])
    /\ ~fivep_id_raises(output.presp[1])
    /\ output' = [output EXCEPT
          !.entry = Some([fivep |-> output.presp[1].result[1].AppOrderID,
                          side |-> side(input),
                          qty |-> qty(input),
                          tqty |-> target_qty(qty(input), input.multiplier)]),
          !.seen = TRUE,
          !.pc = "done"]
    /\ PlaceUnchanged

\* lines 509-518: any other answer, or an exception (of place_order or of
\* line 504): seen, nothing recorded.
PlaceNotMapped ==
    /\ output.pc = "record"
    /\ ~is_success(output.presp[1]) \/ fivep_id_raises(output.presp[1])
    /\ output' = [output EXCEPT !.seen = TRUE, !.pc = "done"]
    /\ PlaceUnchanged

PlaceNext == PlaceQuote \/ PlaceSubmit \/ PlaceMapped \/ PlaceNotMapped

SpecPlace == PlaceInit /\ [][PlaceNext]_vars

\* C31: a mapped ledger entry exists only after place_order answered success,
\* and its side, source quantity and target quantity are those of the source
\* order and of the order that was submitted.
C31_MappedEntryFaithful ==
    output.entry # None =>
        /\ Called("place_order") # {}
        /\ output.presp # None /\ output.presp[1].kind = "dict"
        /\ output.presp[1].type = "success"
        /\ output.entry[1].side = output.params[1].orderSide
        /\ output.entry[1].qty = qty(input)
        /\ output.entry[1].tqty = output.params[1].orderQuantity

\* C32: the side of a placed mirror order is the side of its source order, the
\* quote is the ask for BUY and the bid for SELL, and a source order whose side
\* is neither BUY nor SELL leads to no placed order.
C32_SideFollowsSource ==
    /\ output.params # None =>
          /\ output.params[1].orderSide = side(input)
          /\ side(input) = TRANSACTION_TYPE_BUY => output.trace[1].fn = "get_ask"
          /\ side(input) = TRANSACTION_TYPE_SELL => output.trace[1].fn = "get_bid"
    /\ side(input) \notin {TRANSACTION_TYPE_BUY, TRANSACTION_TYPE_SELL} =>
          Called("place_order") = {}

----------------------------------------------------------------------------
\* Orders that are not COMPLETE when the loop first meets them.

\* The handling of an unseen order that is not COMPLETE, with the watermark
\* set, changes nothing and leaves the order out of seen.
PassedOver ==
    (HandlerStep /\ ~is_first_run(mapping) /\ zid \notin seen /\ o.status # "COMPLETE")
        => /\ UNCHANGED <<mapping, seen, disk, target, calls, writes, lookups, failed>>
           /\ zid \in deferred'

\* C34: an unseen order that is not COMPLETE causes no effect in a
\* poll with the watermark set, and in the first later poll that shows it
\* COMPLETE it is taken through mirroring (the instrument lookup is issued).
\* Stated for the orders whose timestamp is absent or well formed.
C34_DeferredThenMirrored ==
    [][ /\ PassedOver
        /\ (HandlerStep /\ zid \in deferred /\ o.status = "COMPLETE"
              /\ o.order_timestamp.kind # "bad")
           => lookups'[zid] = lookups[zid] + 1
      ]_vars

----------------------------------------------------------------------------
\* Progress of the loop.  The process is sequential: while it is alive it takes
\* its next step, and a kite.orders() that keeps being retried succeeds in the
\* end.  Nothing is assumed about the source account, the logins, or whether
\* the process is killed.

\* A step of the running loop other than a failed fetch.
LoopStep ==
    \/ Fetch
    \/ SkipOrder
    \/ SnapshotBegin
    \/ SnapshotFinish
    \/ TsSkip
    \/ TsError
    \/ ResolveFailed
    \/ Resolved
    \/ NoQuote
    \/ Quoted
    \/ PlaceOrder
    \/ RecordMapped
    \/ RecordNotPlaced

SpecLive == Init /\ [][Next]_vars /\ WF_vars(LoopStep)

\* The source order list shows order z as COMPLETE and the process is alive.
Pending(z) ==
    /\ pc # "down"
    /\ \E k \in DOMAIN src : src[k].order_id = z /\ src[k].status = "COMPLETE"

\* C33: while the process is alive, every source order that is COMPLETE in
\* the source order list comes to be in seen; at most one place_order call is
\* made for it in the run; and once it is in seen it stays there and the loop
\* makes no lookup and no place_order call for it and puts nothing in the
\* target book.
C33_EventuallyFinalised ==
    /\ \A z \in OrderIds : Pending(z) ~> (z \in seen \/ pc = "down")
    /\ [][ \A z \in OrderIds :
              /\ calls'[z] <= 1
              /\ (z \in seen /\ pc' # "down")
                 => /\ z \in seen'
                    /\ calls'[z] = calls[z]
                    /\ lookups'[z] = lookups[z]
                    /\ Placed(z)' = Placed(z)
         ]_vars

\* A later poll meets an order that one place_order call has finalised.
C33_Witness ==
    /\ pc = "for" /\ polls >= 1
    /\ zid \in seen /\ calls[zid] = 1
    /\ o.status = "COMPLETE"

====
